---------------------------- MODULE Spec2Model ----------------------------
(***************************************************************************)
(* Model of transcribe_all.py: discovery of the recordings, the sort key   *)
(* (timestamp source cascade + conversational sequence), the stable sort,  *)
(* and the output loop with its per-second collision labels.               *)
(*                                                                         *)
(* Strings are sequences of one-character strings, so that the regular     *)
(* expressions, str.strip, int(), strptime and strftime are computed       *)
(* character by character.                                                 *)
(***************************************************************************)
EXTENDS Integers, Sequences, FiniteSets, TLC

\* Python's None, and the outcome of a call that raised ValueError
None == [none |-> TRUE]
ValueError == [raised |-> "ValueError"]

(***************************************************************************)
(* Bounds of the model.                                                    *)
(***************************************************************************)
MaxTree == 3
MaxStemLen == 5

(***************************************************************************)
(* Characters.                                                             *)
(***************************************************************************)
NL == "\n"
Digits == {"0", "1", "2", "3", "4", "5", "6", "7", "8", "9"}
Whitespace == {" ", "\n", "\t", "\r", "\f"}

DigitChars == <<"0", "1", "2", "3", "4", "5", "6", "7", "8", "9">>

UpperChars ==
  <<"A", "B", "C", "D", "E", "F", "G", "H", "I", "J", "K", "L", "M",
    "N", "O", "P", "Q", "R", "S", "T", "U", "V", "W", "X", "Y", "Z">>

LowerChars ==
  <<"a", "b", "c", "d", "e", "f", "g", "h", "i", "j", "k", "l", "m",
    "n", "o", "p", "q", "r", "s", "t", "u", "v", "w", "x", "y", "z">>

IndexIn(table, c) == CHOOSE i \in 1..Len(table) : table[i] = c

IsIn(table, c) == \E i \in 1..Len(table) : table[i] = c

\* ord(c), the code point, for the characters that occur in file names
Ord(c) ==
  IF IsIn(DigitChars, c) THEN 47 + IndexIn(DigitChars, c)
  ELSE IF IsIn(UpperChars, c) THEN 64 + IndexIn(UpperChars, c)
  ELSE IF IsIn(LowerChars, c) THEN 96 + IndexIn(LowerChars, c)
  ELSE CASE c = "\t" -> 9
         [] c = "\n" -> 10
         [] c = "\f" -> 12
         [] c = "\r" -> 13
         [] c = " " -> 32
         [] c = "-" -> 45
         [] c = "." -> 46
         [] c = "/" -> 47
         [] c = ":" -> 58
         [] c = "_" -> 95

DigitVal(c) == IndexIn(DigitChars, c) - 1

\* str.lower on one character
LowerChar(c) == IF IsIn(UpperChars, c) THEN LowerChars[IndexIn(UpperChars, c)] ELSE c

Lower(s) == [i \in 1..Len(s) |-> LowerChar(s[i])]

\* str.startswith
StartsWith(s, prefix) ==
  Len(s) >= Len(prefix) /\ SubSeq(s, 1, Len(prefix)) = prefix

\* Python's str < str: code points, lexicographic, a proper prefix is smaller
StrLess(a, b) ==
  \E i \in 1..(Len(a) + 1) :
    /\ i <= Len(b)
    /\ \A j \in 1..(i - 1) : a[j] = b[j]
    /\ \/ i = Len(a) + 1
       \/ Ord(a[i]) < Ord(b[i])

\* int(s) on a run of decimal digits
RECURSIVE IntOf(_)
IntOf(s) ==
  IF s = <<>> THEN 0
  ELSE 10 * IntOf(SubSeq(s, 1, Len(s) - 1)) + DigitVal(s[Len(s)])

\* str(n) for n >= 0
RECURSIVE DecStr(_)
DecStr(n) ==
  IF n < 10 THEN <<DigitChars[n + 1]>>
  ELSE DecStr(n \div 10) \o <<DigitChars[(n % 10) + 1]>>

\* zero-padded decimal of width w, as strftime renders %Y (w = 4) and %m %d %H %M %S
RECURSIVE Pad(_, _)
Pad(n, w) == IF Len(DecStr(n)) >= w THEN DecStr(n) ELSE <<"0">> \o Pad(n, w - 1)

\* str.strip(): leading and trailing whitespace removed
RECURSIVE Strip(_)
Strip(s) ==
  IF s = <<>> THEN s
  ELSE IF s[1] \in Whitespace THEN Strip(Tail(s))
  ELSE IF s[Len(s)] \in Whitespace THEN Strip(SubSeq(s, 1, Len(s) - 1))
  ELSE s

(***************************************************************************)
(* DT_RE = ^(\d{8}) (\d{6})  and  SEQ_RE = ^(.*?)(?: (\d+))?$              *)
(***************************************************************************)
\* DT_RE.match(stem): the two groups, or None
DT_RE_match(stem) ==
  IF /\ Len(stem) >= 15
     /\ \A i \in 1..8 : stem[i] \in Digits
     /\ stem[9] = " "
     /\ \A i \in 10..15 : stem[i] \in Digits
  THEN [g1 |-> SubSeq(stem, 1, 8), g2 |-> SubSeq(stem, 10, 15)]
  ELSE None

\* '$' without re.MULTILINE: at the end, or just before a final line break.
\* k is the index of the next unread character.
AtDollar(s, k) == k = Len(s) + 1 \/ (k = Len(s) /\ s[k] = NL)

\* '.' does not match a line break: the longest text (.*?) can take
DotLimit(s) ==
  IF \E i \in 1..Len(s) : s[i] = NL
  THEN (CHOOSE i \in 1..Len(s) : s[i] = NL /\ \A j \in 1..(i - 1) : s[j] # NL) - 1
  ELSE Len(s)

\* first index >= i that holds no digit (Len(s) + 1 when the digits run to the end)
DigitRunEnd(s, i) ==
  CHOOSE j \in i..(Len(s) + 1) :
    /\ \A x \in i..(j - 1) : s[x] \in Digits
    /\ (j = Len(s) + 1 \/ s[j] \notin Digits)

\* with group 1 = the first k characters: does ' (\d+)' then '$' match?
SeqWithNum(s, k) ==
  /\ k + 2 <= Len(s)
  /\ s[k + 1] = " "
  /\ s[k + 2] \in Digits
  /\ AtDollar(s, DigitRunEnd(s, k + 2))

\* with group 1 = the first k characters and the optional group skipped
SeqWithoutNum(s, k) == AtDollar(s, k + 1)

\* the match object for group 1 = the first k characters
SeqGroups(stem, k) ==
  [g1 |-> SubSeq(stem, 1, k),
   g2 |-> IF SeqWithNum(stem, k)
          THEN [digits |-> SubSeq(stem, k + 2, DigitRunEnd(stem, k + 2) - 1)]
          ELSE None]

\* the lengths of group 1 with which the whole pattern matches
SeqMatchLens(stem) ==
  {k \in 0..DotLimit(stem) : SeqWithNum(stem, k) \/ SeqWithoutNum(stem, k)}

\* a greedy first group, ^(.*)(?: (\d+))?$ : the longest group 1 wins
SEQ_RE_match_greedy(stem) ==
  IF SeqMatchLens(stem) = {} THEN None
  ELSE SeqGroups(stem, CHOOSE x \in SeqMatchLens(stem) : \A y \in SeqMatchLens(stem) : x >= y)

\* SEQ_RE.match(stem): groups g1 and g2 (g2 = None when the optional group
\* took nothing), or None when there is no match.  (.*?) is lazy: the
\* shortest group 1 that lets the rest match wins.
SEQ_RE_match(stem) ==
  IF SeqMatchLens(stem) = {} THEN None
  ELSE SeqGroups(stem, CHOOSE x \in SeqMatchLens(stem) : \A y \in SeqMatchLens(stem) : x <= y)

\* parse_name_sequence without the .strip() on the base
parse_name_sequence_nostrip(stem) ==
  LET m == SEQ_RE_match(stem)
  IN IF m = None THEN [base |-> stem, idx |-> 0]
     ELSE [base |-> m.g1, idx |-> IF m.g2 # None THEN IntOf(m.g2.digits) ELSE 0]

\* parse_name_sequence(stem) -> (base, idx).  int() of a \d+ group cannot
\* raise, so the except branch of the source never runs.
parse_name_sequence(stem) ==
  LET m == SEQ_RE_match(stem)
  IN IF m = None THEN [base |-> stem, idx |-> 0]
     ELSE [base |-> Strip(m.g1), idx |-> IF m.g2 # None THEN IntOf(m.g2.digits) ELSE 0]

(***************************************************************************)
(* datetime: the proleptic Gregorian calendar, naive and aware values.     *)
(* A naive datetime is its six fields; an aware datetime is the instant    *)
(* (POSIX seconds and microseconds) with the utcoffset of its tzinfo.      *)
(***************************************************************************)
IsLeap(y) == (y % 4 = 0 /\ y % 100 # 0) \/ y % 400 = 0

DaysInMonth(y, m) ==
  IF m = 2 THEN (IF IsLeap(y) THEN 29 ELSE 28)
  ELSE IF m \in {4, 6, 9, 11} THEN 30 ELSE 31

\* days since 1970-01-01 of a civil date
DaysFromCivil(y, m, d) ==
  LET yy == IF m <= 2 THEN y - 1 ELSE y
      era == yy \div 400
      yoe == yy - era * 400
      mp == IF m > 2 THEN m - 3 ELSE m + 9
      doy == (153 * mp + 2) \div 5 + d - 1
      doe == yoe * 365 + yoe \div 4 - yoe \div 100 + doy
  IN era * 146097 + doe - 719468

\* the civil date <<y, m, d>> of a day number
CivilFromDays(z0) ==
  LET z == z0 + 719468
      era == z \div 146097
      doe == z - era * 146097
      yoe == (doe - doe \div 1460 + doe \div 36524 - doe \div 146096) \div 365
      doy == doe - (365 * yoe + yoe \div 4 - yoe \div 100)
      mp == (5 * doy + 2) \div 153
      d == doy - (153 * mp + 2) \div 5 + 1
      m == IF mp < 10 THEN mp + 3 ELSE mp - 9
      y == yoe + era * 400 + (IF m <= 2 THEN 1 ELSE 0)
  IN <<y, m, d>>

\* seconds since the epoch of the fields <<Y, M, D, h, m, s>> read as UTC
EpochOf(f) == DaysFromCivil(f[1], f[2], f[3]) * 86400 + f[4] * 3600 + f[5] * 60 + f[6]

\* the fields <<Y, M, D, h, m, s>> of a count of seconds
FieldsOf(t) ==
  LET c == CivilFromDays(t \div 86400)
      r == t % 86400
  IN <<c[1], c[2], c[3], r \div 3600, (r % 3600) \div 60, r % 60>>

\* an aware datetime in UTC from its fields and microseconds
Utc(f, us) == [sec |-> EpochOf(f), usec |-> us, off |-> 0]

\* datetime.strptime(s, "%Y%m%d%H%M%S") on 14 digits: every directive must
\* take two digits (four for %Y) or unconverted data remains; the fields
\* must then make a date.  The naive datetime, or ValueError.
strptime(s) ==
  LET Y == IntOf(SubSeq(s, 1, 4))
      M == IntOf(SubSeq(s, 5, 6))
      D == IntOf(SubSeq(s, 7, 8))
      h == IntOf(SubSeq(s, 9, 10))
      m == IntOf(SubSeq(s, 11, 12))
      sc == IntOf(SubSeq(s, 13, 14))
  IN IF /\ Y >= 1
        /\ M \in 1..12
        /\ D \in 1..DaysInMonth(Y, M)
        /\ h <= 23
        /\ m <= 59
        /\ sc <= 59
     THEN [fields |-> <<Y, M, D, h, m, sc>>]
     ELSE ValueError

\* parse_dt_from_stem(stem): None, a naive datetime, or ValueError raised by strptime
parse_dt_from_stem(stem) ==
  LET m == DT_RE_match(stem)
  IN IF m = None THEN None ELSE strptime(m.g1 \o m.g2)

\* naive.replace(tzinfo=tz) with tz a fixed offset: the same wall-clock fields
replace_tzinfo(naive, off) ==
  [sec |-> EpochOf(naive.fields) - off, usec |-> 0, off |-> off]

\* the wall-clock fields of an aware datetime
WallFields(dt) == FieldsOf(dt.sec + dt.off)

\* aware datetimes compare by instant
DtEq(a, b) == a.sec = b.sec /\ a.usec = b.usec

DtLess(a, b) == a.sec < b.sec \/ (a.sec = b.sec /\ a.usec < b.usec)

(***************************************************************************)
(* The local time zone of the process: UTC, or a zone with daylight        *)
(* saving time (America/New_York in 2026: clocks go forward on 8 March     *)
(* at 07:00 UTC and back on 1 November at 06:00 UTC).                      *)
(***************************************************************************)
Zones == {"UTC", "America/New_York"}

DstBegin == EpochOf(<<2026, 3, 8, 7, 0, 0>>)
DstEnd == EpochOf(<<2026, 11, 1, 6, 0, 0>>)

\* the utcoffset of the zone at an instant
UtcOffsetAt(z, t) ==
  IF z = "UTC" THEN 0
  ELSE IF DstBegin <= t /\ t < DstEnd THEN 0 - 4 * 3600 ELSE 0 - 5 * 3600

\* the offsets datetime.now().astimezone().tzinfo can have when the process starts
LocalTzChoices(z) == IF z = "UTC" THEN {0} ELSE {0 - 4 * 3600, 0 - 5 * 3600}

\* dt.astimezone(): the same instant with the system zone's offset at that instant
astimezone(dt, z) == [sec |-> dt.sec, usec |-> dt.usec, off |-> UtcOffsetAt(z, dt.sec)]

\* dt.replace(microsecond=0)
replace_microsecond0(dt) == [sec |-> dt.sec, usec |-> 0, off |-> dt.off]

\* dt.strftime("%Y-%m-%d %H:%M:%S")
strftime(dt) ==
  LET f == WallFields(dt)
  IN Pad(f[1], 4) \o <<"-">> \o Pad(f[2], 2) \o <<"-">> \o Pad(f[3], 2) \o <<" ">>
     \o Pad(f[4], 2) \o <<":">> \o Pad(f[5], 2) \o <<":">> \o Pad(f[6], 2)

(***************************************************************************)
(* pathlib: name, suffix, stem.                                            *)
(***************************************************************************)
\* name.rfind('.') as a 1-based index, 0 when there is no dot
RFindDot(name) ==
  IF \E i \in 1..Len(name) : name[i] = "."
  THEN CHOOSE i \in 1..Len(name) : name[i] = "." /\ \A j \in (i + 1)..Len(name) : name[j] # "."
  ELSE 0

HasSuffix(name) == 1 < RFindDot(name) /\ RFindDot(name) < Len(name)

\* Path.suffix
Suffix(name) == IF HasSuffix(name) THEN SubSeq(name, RFindDot(name), Len(name)) ELSE <<>>

\* Path.stem
Stem(name) == IF HasSuffix(name) THEN SubSeq(name, 1, RFindDot(name) - 1) ELSE name

AUDIO_EXTS ==
  { <<".", "m", "4", "a">>, <<".", "m", "p", "3">>, <<".", "w", "a", "v">>,
    <<".", "a", "a", "c">>, <<".", "f", "l", "a", "c">>, <<".", "o", "g", "g">>,
    <<".", "m", "p", "4">>, <<".", "w", "e", "b", "m">>, <<".", "m", "k", "v">>,
    <<".", "c", "a", "f">> }

(***************************************************************************)
(* The input trees.  A directory entry has its directory, its name,        *)
(* whether it is a regular file, its st_mtime, the creation tag its media  *)
(* metadata holds (as _parse_media_dt reads it: an aware UTC datetime, or  *)
(* None), and what the speech-to-text engine returns for it.               *)
(***************************************************************************)
Name_A == <<"2", "0", "2", "6", "0", "1", "1", "3", " ", "1", "3", "1", "0", "2", "4", ".", "m", "4", "a">>
Name_B == <<"2", "0", "2", "6", "0", "1", "1", "3", " ", "1", "3", "1", "0", "2", "4", " ", "2", ".", "m", "4", "a">>
Name_E == <<"2", "0", "2", "6", "1", "3", "4", "5", " ", "9", "9", "9", "9", "9", "9", ".", "m", "4", "a">>
Name_F == <<"m", "e", "m", "o", ".", "m", "p", "3">>
Name_G == <<"m", "e", "m", "o", " ", "2", ".", "M", "P", "3">>
Name_H == <<"2", "0", "2", "6", "0", "1", "1", "3", " ", "1", "3", "1", "0", "2", "4", ".", "w", "a", "v">>
Name_J == <<".", "_", "m", "e", "m", "o", ".", "m", "p", "3">>
Name_K == <<"n", "o", "t", "e", "s", ".", "t", "x", "t">>
Name_L == <<"a", "l", "b", "u", "m", ".", "m", "4", "a">>

\* the st_mtime a batch export leaves on every file
ExportTime == [sec |-> EpochOf(<<2026, 2, 1, 10, 0, 0>>), usec |-> 500000]
LaterTime == [sec |-> EpochOf(<<2026, 2, 1, 10, 0, 7>>), usec |-> 0]

File(dir, name, mtime, tag, text) ==
  [dir |-> dir, name |-> name, is_file |-> TRUE, mtime |-> mtime, tag |-> tag,
   text |-> text, language |-> "vi"]

File_A == File("root", Name_A, ExportTime, None, "text A")
File_B == File("root", Name_B, ExportTime, None, "text B")
File_D == File("root/sub", Name_A, ExportTime, None, "text D")
File_E == File("root", Name_E, ExportTime, None, "text E")
File_F == File("root", Name_F, ExportTime, Utc(<<2026, 1, 10, 9, 0, 0>>, 0), "text F")
File_G == File("root", Name_G, ExportTime, Utc(<<2026, 11, 1, 5, 30, 0>>, 250000), "text G")
File_H == File("root", Name_H, LaterTime, Utc(<<2026, 11, 1, 6, 30, 0>>, 0), "text H")
File_J == File("root", Name_J, ExportTime, None, "")
File_K == File("root", Name_K, LaterTime, None, "")
Dir_L == [dir |-> "root", name |-> Name_L, is_file |-> FALSE, mtime |-> LaterTime,
          tag |-> None, text |-> "", language |-> ""]

Catalogue ==
  {File_A, File_B, File_D, File_E, File_F, File_G, File_H, File_J, File_K, Dir_L}

\* str(p): a path is its directory and its name
PathStr(e) == <<e.dir, e.name>>

Paths == {PathStr(e) : e \in Catalogue}

Trees == {t \in SUBSET Catalogue : Cardinality(t) <= MaxTree}

\* the test of iter_audio_files on one entry of root.rglob("*")
IsAudioFile(e) ==
  /\ e.is_file
  /\ ~StartsWith(e.name, <<".", "_">>)
  /\ Lower(Suffix(e.name)) \in AUDIO_EXTS

(***************************************************************************)
(* The media probe.                                                        *)
(***************************************************************************)
\* how the ffprobe subprocess can end
ProbeOutcomes == {"ok", "nonzero exit", "malformed output", "exception"}

\* the body of _media_created_dt_cached for one way the subprocess ends
ProbeResult(e, outcome) == IF outcome = "ok" THEN e.tag ELSE None

\* a cache that keeps timestamps only, so an unavailable result is probed again
lru_store_found_only(cache, path, result) ==
  IF result = None THEN cache ELSE (path :> result) @@ cache

\* lru_cache(maxsize=None): every returned value is kept, None included
lru_store(cache, path, result) == (path :> result) @@ cache

\* what media_created_dt(p) can return: the cached value on a hit
ProbeReturns(cache, e) ==
  IF PathStr(e) \in DOMAIN cache THEN {cache[PathStr(e)]}
  ELSE {ProbeResult(e, o) : o \in ProbeOutcomes}

(***************************************************************************)
(* sort_key and the order of its tuples.                                   *)
(***************************************************************************)
MtimeDt(e) == [sec |-> e.mtime.sec, usec |-> e.mtime.usec, off |-> 0]

Key(priority, dt, e) ==
  [priority |-> priority, dt |-> dt,
   base_name |-> parse_name_sequence(Stem(e.name)).base,
   seq_idx |-> parse_name_sequence(Stem(e.name)).idx,
   name |-> e.name]

\* sort_key(p), given what media_created_dt(p) returned: the key, or
\* ValueError when parse_dt_from_stem raises
sort_key(e, dt_media, local_tz) ==
  IF dt_media # None THEN Key(0, dt_media, e)
  ELSE LET dt_name == parse_dt_from_stem(Stem(e.name))
       IN IF dt_name = ValueError THEN ValueError
          ELSE IF dt_name # None THEN Key(1, replace_tzinfo(dt_name, local_tz), e)
          ELSE Key(2, MtimeDt(e), e)

\* an order that compares the timestamps before the priorities
KeyLessTimeFirst(a, b) ==
  IF ~DtEq(a.dt, b.dt) THEN DtLess(a.dt, b.dt)
  ELSE IF a.priority # b.priority THEN a.priority < b.priority
  ELSE IF a.base_name # b.base_name THEN StrLess(a.base_name, b.base_name)
  ELSE IF a.seq_idx # b.seq_idx THEN a.seq_idx < b.seq_idx
  ELSE StrLess(a.name, b.name)

\* a < b on the key tuples: the first component that differs decides
KeyLess(a, b) ==
  IF a.priority # b.priority THEN a.priority < b.priority
  ELSE IF ~DtEq(a.dt, b.dt) THEN DtLess(a.dt, b.dt)
  ELSE IF a.base_name # b.base_name THEN StrLess(a.base_name, b.base_name)
  ELSE IF a.seq_idx # b.seq_idx THEN a.seq_idx < b.seq_idx
  ELSE StrLess(a.name, b.name)

\* a == b on the key tuples
KeyEq(a, b) ==
  /\ a.priority = b.priority
  /\ DtEq(a.dt, b.dt)
  /\ a.base_name = b.base_name
  /\ a.seq_idx = b.seq_idx
  /\ a.name = b.name

\* x put into a sorted list behind every element that is not greater
InsertStable(sorted, x, k) ==
  LET n == Cardinality({j \in 1..Len(sorted) : ~KeyLess(k[PathStr(x)], k[PathStr(sorted[j])])})
  IN SubSeq(sorted, 1, n) \o <<x>> \o SubSeq(sorted, n + 1, Len(sorted))

\* sorted(list, key=...): stable, equal keys keep the order of the list
RECURSIVE SortedBy(_, _)
SortedBy(list, k) ==
  IF list = <<>> THEN <<>>
  ELSE InsertStable(SortedBy(SubSeq(list, 1, Len(list) - 1), k), list[Len(list)], k)

(***************************************************************************)
(* The header of the output loop.                                          *)
(***************************************************************************)
\* a header that goes from the media timestamp straight to the mtime
header_dt_no_filename(e, dt_media, local_tz) ==
  IF dt_media # None THEN [source |-> 0, dt |-> dt_media]
  ELSE [source |-> 2, dt |-> MtimeDt(e)]

\* the cascade of main: the timestamp the header shows and the source it
\* came from (0 media, 1 filename, 2 mtime), or ValueError
header_dt(e, dt_media, local_tz) ==
  IF dt_media # None THEN [source |-> 0, dt |-> dt_media]
  ELSE LET dt_name == parse_dt_from_stem(Stem(e.name))
       IN IF dt_name = ValueError THEN ValueError
          ELSE IF dt_name # None
               THEN [source |-> 1, dt |-> replace_tzinfo(dt_name, local_tz)]
               ELSE [source |-> 2, dt |-> MtimeDt(e)]

\* counts_by_second.get(key, 0): dict keys are equal when datetime.__eq__ holds
counts_get(d, key) ==
  IF \E k \in DOMAIN d : DtEq(k, key)
  THEN d[CHOOSE k \in DOMAIN d : DtEq(k, key)]
  ELSE 0

\* counts_by_second[key] = count
counts_set(d, key, count) ==
  IF \E k \in DOMAIN d : DtEq(k, key)
  THEN [d EXCEPT ![CHOOSE k \in DOMAIN d : DtEq(k, key)] = count]
  ELSE (key :> count) @@ d

\* the display timestamp with its tie-break suffix
Label(ts_str, count) == IF count > 1 THEN ts_str \o <<":">> \o DecStr(count) ELSE ts_str

\* transcripts_dir / f"{p.stem}.txt"
PerFileName(e) == Stem(e.name) \o <<".", "t", "x", "t">>

(***************************************************************************)
(* State.                                                                  *)
(***************************************************************************)
VARIABLES
  zone,              \* the system's local time zone
  LOCAL_TZ,          \* utcoffset of _LOCAL_TZ, fixed when the module is loaded
  tree,              \* the entries under the input root
  visited,           \* entries root.rglob("*") has yielded so far
  listed,            \* list(iter_audio_files(in_root)), in the order yielded
  files,             \* the sorted list main binds to files
  pc,                \* where main is: "walk", "keys", "loop", "done", "raised"
  keys,              \* path -> what sort_key returned (or ValueError)
  cache,             \* the lru_cache of _media_created_dt_cached: path -> result
  probe_runs,        \* path -> number of subprocess.run calls
  probe_log,         \* path -> the results media_created_dt returned, in call order
  i,                 \* index in files of the next file of the output loop
  per_file,          \* transcripts_dir: file name -> content
  combined,          \* ALL_TRANSCRIPTS.txt: the entries written, in order
  counts_by_second,  \* the dict of the output loop
  header,            \* path -> the timestamp and source the header was built from
  stem,              \* SequenceParser run: the stem given to the parser
  parsed,            \* SequenceParser run: parse_name_sequence(stem), or None
  reparsed           \* SequenceParser run: parse_name_sequence(parsed.base), or None

vars ==
  <<zone, LOCAL_TZ, tree, visited, listed, files, pc, keys, cache, probe_runs, probe_log,
    i, per_file, combined, counts_by_second, header, stem, parsed, reparsed>>

mainVars ==
  <<zone, LOCAL_TZ, tree, visited, listed, files, pc, keys, cache, probe_runs, probe_log,
    i, per_file, combined, counts_by_second, header>>

seqVars == <<stem, parsed, reparsed>>

EmptyMap == <<>>

(***************************************************************************)
(* main(): one run over one input tree.                                    *)
(***************************************************************************)
Init ==
  /\ zone \in Zones
  /\ LOCAL_TZ \in LocalTzChoices(zone)
  /\ tree \in Trees
  /\ visited = {}
  /\ listed = <<>>
  /\ files = <<>>
  /\ pc = "walk"
  /\ keys = EmptyMap
  /\ cache = EmptyMap
  /\ probe_runs = [p \in Paths |-> 0]
  /\ probe_log = [p \in Paths |-> <<>>]
  /\ i = 1
  /\ per_file = EmptyMap
  /\ combined = <<>>
  /\ counts_by_second = EmptyMap
  /\ header = EmptyMap
  /\ stem = <<>>
  /\ parsed = None
  /\ reparsed = None

\* iter_audio_files: rglob yields the next entry, in whatever order the
\* file system gives; list() keeps it when it passes the tests
Walk ==
  /\ pc = "walk"
  /\ \E e \in tree \ visited :
       /\ visited' = visited \cup {e}
       /\ listed' = IF IsAudioFile(e) THEN Append(listed, e) ELSE listed
  /\ UNCHANGED <<zone, LOCAL_TZ, tree, files, pc, keys, cache, probe_runs, probe_log, i,
                 per_file, combined, counts_by_second, header, seqVars>>

\* the generator is exhausted: sorted() starts calling the key function
EndWalk ==
  /\ pc = "walk"
  /\ visited = tree
  /\ pc' = "keys"
  /\ UNCHANGED <<zone, LOCAL_TZ, tree, visited, listed, files, keys, cache, probe_runs,
                 probe_log, i, per_file, combined, counts_by_second, header, seqVars>>

\* media_created_dt(e) returning r: the effect on the cache and the counters
ProbeEffect(e, r) ==
  /\ cache' = IF PathStr(e) \in DOMAIN cache THEN cache ELSE lru_store(cache, PathStr(e), r)
  /\ probe_runs' = IF PathStr(e) \in DOMAIN cache THEN probe_runs
                   ELSE [probe_runs EXCEPT ![PathStr(e)] = @ + 1]
  /\ probe_log' = [probe_log EXCEPT ![PathStr(e)] = Append(@, r)]

\* sorted() calls sort_key on the next element of the list; an exception
\* of the key function leaves main
SortKey ==
  /\ pc = "keys"
  /\ Cardinality(DOMAIN keys) < Len(listed)
  /\ LET e == listed[Cardinality(DOMAIN keys) + 1]
     IN \E r \in ProbeReturns(cache, e) :
          /\ ProbeEffect(e, r)
          /\ keys' = (PathStr(e) :> sort_key(e, r, LOCAL_TZ)) @@ keys
          /\ pc' = IF sort_key(e, r, LOCAL_TZ) = ValueError THEN "raised" ELSE "keys"
  /\ UNCHANGED <<zone, LOCAL_TZ, tree, visited, listed, files, i, per_file, combined,
                 counts_by_second, header, seqVars>>

\* every key is computed: the list is sorted, the combined file is opened
\* and the counter map starts empty
Sorted ==
  /\ pc = "keys"
  /\ Cardinality(DOMAIN keys) = Len(listed)
  /\ files' = SortedBy(listed, keys)
  /\ combined' = <<>>
  /\ counts_by_second' = EmptyMap
  /\ i' = 1
  /\ pc' = "loop"
  /\ UNCHANGED <<zone, LOCAL_TZ, tree, visited, listed, keys, cache, probe_runs,
                 probe_log, per_file, header, seqVars>>

\* one pass of the output loop on files[i]
Transcribe ==
  /\ pc = "loop"
  /\ i <= Len(files)
  /\ LET e == files[i]
     IN \E r \in ProbeReturns(cache, e) :
          LET h == header_dt(e, r, LOCAL_TZ)
          IN /\ ProbeEffect(e, r)
             /\ per_file' = (PerFileName(e) :> e.text) @@ per_file
             /\ IF h = ValueError
                THEN /\ pc' = "raised"
                     /\ UNCHANGED <<i, combined, counts_by_second, header>>
                ELSE LET dt_local == astimezone(h.dt, zone)
                         key == replace_microsecond0(dt_local)
                         count == counts_get(counts_by_second, key) + 1
                     IN /\ counts_by_second' = counts_set(counts_by_second, key, count)
                        /\ combined' = Append(combined,
                             [ts_str |-> Label(strftime(dt_local), count),
                              name |-> e.name, language |-> e.language,
                              text |-> e.text, path |-> PathStr(e)])
                        /\ header' = (PathStr(e) :> h) @@ header
                        /\ i' = i + 1
                        /\ pc' = "loop"
  /\ UNCHANGED <<zone, LOCAL_TZ, tree, visited, listed, files, keys, seqVars>>

\* the loop is over, the combined file is closed
Finish ==
  /\ pc = "loop"
  /\ i > Len(files)
  /\ pc' = "done"
  /\ UNCHANGED <<zone, LOCAL_TZ, tree, visited, listed, files, keys, cache, probe_runs,
                 probe_log, i, per_file, combined, counts_by_second, header, seqVars>>

Next == Walk \/ EndWalk \/ SortKey \/ Sorted \/ Transcribe \/ Finish

Spec == Init /\ [][Next]_vars

(***************************************************************************)
(* parse_name_sequence on its own: every stem up to MaxStemLen over a      *)
(* small alphabet, parsed, and its base name parsed again.                 *)
(***************************************************************************)
StemAlphabet == {"X", " ", "7", "8", NL}

Stems == UNION {[1..n -> StemAlphabet] : n \in 0..MaxStemLen}

SeqInit ==
  /\ stem \in Stems
  /\ parsed = None
  /\ reparsed = None
  /\ zone = "UTC"
  /\ LOCAL_TZ = 0
  /\ tree = {}
  /\ visited = {}
  /\ listed = <<>>
  /\ files = <<>>
  /\ pc = "idle"
  /\ keys = EmptyMap
  /\ cache = EmptyMap
  /\ probe_runs = [p \in Paths |-> 0]
  /\ probe_log = [p \in Paths |-> <<>>]
  /\ i = 1
  /\ per_file = EmptyMap
  /\ combined = <<>>
  /\ counts_by_second = EmptyMap
  /\ header = EmptyMap

Parse ==
  /\ parsed = None
  /\ parsed' = parse_name_sequence(stem)
  /\ UNCHANGED <<stem, reparsed, mainVars>>

Reparse ==
  /\ parsed # None
  /\ reparsed = None
  /\ reparsed' = parse_name_sequence(parsed.base)
  /\ UNCHANGED <<stem, parsed, mainVars>>

SeqNext == Parse \/ Reparse

SeqSpec == SeqInit /\ [][SeqNext]_vars

(***************************************************************************)
(* Properties.                                                             *)
(***************************************************************************)
EntryAt(p) == CHOOSE e \in Catalogue : PathStr(e) = p

Discovered == {listed[n] : n \in 1..Len(listed)}

\* the stem starts with eight digits, a space and six digits
StartsWithDateTime(st) ==
  /\ Len(st) >= 15
  /\ \A n \in (1..8) \cup (10..15) : st[n] \in Digits
  /\ st[9] = " "

\* the six numbers those digits spell
FilenameFields(st) ==
  <<IntOf(SubSeq(st, 1, 4)), IntOf(SubSeq(st, 5, 6)), IntOf(SubSeq(st, 7, 8)),
    IntOf(SubSeq(st, 10, 11)), IntOf(SubSeq(st, 12, 13)), IntOf(SubSeq(st, 14, 15))>>

\* C1: for every file sort_key was called on, the call ends with exactly one
\* source chosen: priority 0 with the media timestamp when the probe returned
\* one; otherwise priority 1 with the wall-clock fields of the filename when
\* the stem starts with 'YYYYMMDD HHMMSS'; otherwise priority 2 with the mtime.
C1_ResolverPicksStrongestSource ==
  \A p \in DOMAIN keys :
    LET e == EntryAt(p)
        r == probe_log[p][1]
        st == Stem(e.name)
    IN /\ keys[p] # ValueError
       /\ r # None => (keys[p].priority = 0 /\ keys[p].dt = r)
       /\ (r = None /\ StartsWithDateTime(st)) =>
            (keys[p].priority = 1 /\ WallFields(keys[p].dt) = FilenameFields(st))
       /\ (r = None /\ ~StartsWithDateTime(st)) =>
            (keys[p].priority = 2 /\ keys[p].dt = MtimeDt(e))

\* C2: timestamp resolution never aborts the batch: every call of sort_key
\* ends with a (priority, timestamp) pair, whatever the stem and the probe
\* outcome, and main never leaves through an exception.
C2_ResolutionNeverAborts ==
  /\ pc # "raised"
  /\ \A p \in DOMAIN keys : keys[p] # ValueError

OrdersOf(list) ==
  {q \in [1..Len(list) -> {list[n] : n \in 1..Len(list)}] :
     \A m, n \in 1..Len(list) : m # n => q[m] # q[n]}

\* C3: once the list is sorted, any two distinct files have different keys,
\* and sorting any other discovery order of the same files gives the same list.
C3_StrictTotalOrder ==
  pc \in {"loop", "done"} =>
    /\ \A m, n \in 1..Len(files) :
         m # n => ~KeyEq(keys[PathStr(files[m])], keys[PathStr(files[n])])
    /\ \A q \in OrdersOf(listed) : SortedBy(q, keys) = files

\* C4: after a completed run there are as many per-file transcripts as
\* recordings, and each recording's transcript holds that recording's text.
C4_OneTranscriptPerRecording ==
  pc = "done" =>
    /\ Cardinality(DOMAIN per_file) = Len(files)
    /\ \A n \in 1..Len(files) : per_file[PerFileName(files[n])] = files[n].text

Stem_A == Stem(Name_A)
Stem_A_date == SubSeq(Stem_A, 1, 8)

\* the run is over and the two recordings of the scenario were the input
C5_Scenario == pc = "done" /\ Discovered = {File_A, File_B}

\* the first entry is A with a bare timestamp, the second is B with the same
\* timestamp followed by ':2'
C5_OrderAndLabels ==
  /\ Len(combined) = 2
  /\ combined[1].path = PathStr(File_A)
  /\ combined[2].path = PathStr(File_B)
  /\ Len(combined[1].ts_str) = 19
  /\ combined[2].ts_str = combined[1].ts_str \o <<":", "2">>

\* C5 as claimed: A then B because A has sequence index 0 and B sequence
\* index 2 under one base name; bare timestamp on A, ':2' on B.
C5_Original ==
  C5_Scenario =>
    /\ C5_OrderAndLabels
    /\ keys[PathStr(File_A)].base_name = keys[PathStr(File_B)].base_name
    /\ keys[PathStr(File_A)].seq_idx = 0
    /\ keys[PathStr(File_B)].seq_idx = 2

\* C5 amended: A then B, bare timestamp on A and ':2' on B, both keys with
\* priority 1 and the same timestamp; A's key has base name '20260113' and
\* sequence index 131024, B's has base name '20260113 131024' and index 2,
\* and the order is decided by the base names (a prefix sorts first).
C5_Amended ==
  C5_Scenario =>
    /\ C5_OrderAndLabels
    /\ keys[PathStr(File_A)].priority = 1
    /\ keys[PathStr(File_B)].priority = 1
    /\ DtEq(keys[PathStr(File_A)].dt, keys[PathStr(File_B)].dt)
    /\ keys[PathStr(File_A)].base_name = Stem_A_date
    /\ keys[PathStr(File_A)].seq_idx = 131024
    /\ keys[PathStr(File_B)].base_name = Stem_A
    /\ keys[PathStr(File_B)].seq_idx = 2
    /\ StrLess(keys[PathStr(File_A)].base_name, keys[PathStr(File_B)].base_name)

\* the scenario, discovered B first
C5_Witness == C5_Scenario /\ listed = <<File_B, File_A>> /\ Len(combined) = 2

Stem_X78 == <<"X", " ", "7", " ", "8">>
Stem_X7 == <<"X", " ", "7">>
Stem_X == <<"X">>

\* a line break before the last character
InnerLineBreak(s) == \E n \in 1..(Len(s) - 1) : s[n] = NL

\* s without one final line break
ChompLineBreak(s) ==
  IF s # <<>> /\ s[Len(s)] = NL THEN SubSeq(s, 1, Len(s) - 1) ELSE s

\* s is 'X n': it ends with a space and a run of digits that starts at k + 1
EndsWithNumberAt(s, k) ==
  /\ 1 <= k /\ k < Len(s)
  /\ s[k] = " "
  /\ \A n \in (k + 1)..Len(s) : s[n] \in Digits

EndsWithNumber(s) == \E k \in 1..Len(s) : EndsWithNumberAt(s, k)

\* what the contract gives for a stem without line breaks
SplitOf(s) ==
  IF EndsWithNumber(s)
  THEN LET k == CHOOSE k \in 1..Len(s) : EndsWithNumberAt(s, k)
       IN [base |-> Strip(SubSeq(s, 1, k - 1)), idx |-> IntOf(SubSeq(s, k + 1, Len(s)))]
  ELSE [base |-> Strip(s), idx |-> 0]

\* no line break in s
OneLine(s) == \A n \in 1..Len(s) : s[n] # NL

Shown(n) == SubSeq(combined[n].ts_str, 1, 19)

\* how many entries up to the n-th show the second the n-th shows
RankOnSecond(n) == Cardinality({m \in 1..n : Shown(m) = Shown(n)})

\* C7: the k-th entry, in output order, that shows a given local second has
\* the bare timestamp when k = 1 and the timestamp followed by ':k' when k > 1.
C7_CollisionLabels ==
  \A n \in 1..Len(combined) :
    combined[n].ts_str =
      IF RankOnSecond(n) = 1 THEN Shown(n)
      ELSE Shown(n) \o <<":">> \o DecStr(RankOnSecond(n))

\* C8: the probe subprocess runs at most once per path; a file is queried
\* once for its sort key and once for its header, and the second query
\* returns what the first returned without a new subprocess.
C8_ProbeOncePerPath ==
  \A p \in Paths :
    /\ probe_runs[p] <= 1
    /\ Len(probe_log[p]) <= 2
    /\ Len(probe_log[p]) >= 1 => probe_runs[p] = 1
    /\ Len(probe_log[p]) = 2 => probe_log[p][2] = probe_log[p][1]
    /\ (pc = "done" /\ EntryAt(p) \in Discovered) => Len(probe_log[p]) = 2

\* a finished run with a file whose probe failed although it has a tag, and
\* a file whose probe gave a timestamp, both queried twice
C8_Witness ==
  /\ pc = "done"
  /\ \E p, q \in Paths :
       /\ Len(probe_log[p]) = 2 /\ probe_log[p][1] = None /\ EntryAt(p).tag # None
       /\ Len(probe_log[q]) = 2 /\ probe_log[q][1] # None
       /\ probe_runs[p] = 1 /\ probe_runs[q] = 1

KeyAt(n) == keys[combined[n].path]

\* C9: the combined transcript of a completed run has exactly one entry per
\* discovered file, in ascending key order with the priority compared first:
\* every priority-0 entry before every priority-1 entry before every
\* priority-2 entry, whatever the timestamps.
C9_CombinedInKeyOrder ==
  pc = "done" =>
    /\ Len(combined) = Len(listed)
    /\ {combined[n].path : n \in 1..Len(combined)} = {PathStr(e) : e \in Discovered}
    /\ \A n \in 1..Len(combined) :
         /\ combined[n].name = EntryAt(combined[n].path).name
         /\ combined[n].text = EntryAt(combined[n].path).text
    /\ \A m, n \in 1..Len(combined) :
         m < n =>
           /\ KeyAt(m).priority <= KeyAt(n).priority
           /\ KeyAt(m).priority = KeyAt(n).priority => ~DtLess(KeyAt(n).dt, KeyAt(m).dt)
           /\ (KeyAt(m).priority = KeyAt(n).priority /\ DtEq(KeyAt(m).dt, KeyAt(n).dt)) =>
                ~StrLess(KeyAt(n).base_name, KeyAt(m).base_name)
           /\ ( /\ KeyAt(m).priority = KeyAt(n).priority
                /\ DtEq(KeyAt(m).dt, KeyAt(n).dt)
                /\ KeyAt(m).base_name = KeyAt(n).base_name ) =>
                KeyAt(m).seq_idx <= KeyAt(n).seq_idx
           /\ ( /\ KeyAt(m).priority = KeyAt(n).priority
                /\ DtEq(KeyAt(m).dt, KeyAt(n).dt)
                /\ KeyAt(m).base_name = KeyAt(n).base_name
                /\ KeyAt(m).seq_idx = KeyAt(n).seq_idx ) =>
                ~StrLess(KeyAt(n).name, KeyAt(m).name)

\* a finished run where a media-dated entry precedes a filename-dated entry
\* of an earlier date, and the output order is not the discovery order
C9_Witness ==
  /\ pc = "done"
  /\ files # listed
  /\ \E m, n \in 1..Len(combined) :
       /\ m < n
       /\ KeyAt(m).priority = 0
       /\ KeyAt(n).priority = 1
       /\ DtLess(KeyAt(n).dt, KeyAt(m).dt)

\* C10: the timestamp a header is built from is the timestamp of the file's
\* sort key, from the same source.
C10_HeaderUsesKeyTimestamp ==
  \A p \in DOMAIN header :
    /\ header[p].source = keys[p].priority
    /\ header[p].dt = keys[p].dt

\* a finished run with one header from each source
C10_Witness ==
  /\ pc = "done"
  /\ {header[p].source : p \in DOMAIN header} = {0, 1, 2}

=============================================================================
